---- MODULE Spec2Model ----
(***************************************************************************)
(* Model of pagerank.py: transition_model, sample_pagerank and             *)
(* iterate_pagerank.                                                       *)
(*                                                                         *)
(* Python floats are modelled as exact rationals.  A dictionary of         *)
(* probabilities is a function from pages to integer numerators over one   *)
(* common denominator.  The rank vectors of iterate_pagerank need more     *)
(* than 32 bits, so their numerators are signed multi-limb integers.       *)
(***************************************************************************)
EXTENDS Integers, Sequences, FiniteSets, TLC

(***************************************************************************)
(* Multi-limb naturals: little-endian sequences of limbs in 0..Base-1      *)
(* without a leading zero limb; zero is the empty sequence.  The           *)
(* operations are functions, so that an argument is evaluated once.        *)
(***************************************************************************)
Base == 10000

Big == Seq(Int)

BNorm[a \in Big] ==
  IF a = <<>> THEN <<>>
  ELSE IF a[Len(a)] = 0 THEN BNorm[SubSeq(a, 1, Len(a) - 1)]
  ELSE a

BFrom[c \in Int] == IF c = 0 THEN <<>> ELSE <<c % Base>> \o BFrom[c \div Base]

BAddC[a \in Big, b \in Big, c \in Int] ==
  IF a = <<>> /\ b = <<>> THEN BFrom[c]
  ELSE LET x == IF a = <<>> THEN 0 ELSE Head(a)
           y == IF b = <<>> THEN 0 ELSE Head(b)
       IN <<(x + y + c) % Base>>
            \o BAddC[IF a = <<>> THEN <<>> ELSE Tail(a),
                     IF b = <<>> THEN <<>> ELSE Tail(b),
                     (x + y + c) \div Base]

BAdd(a, b) == BAddC[a, b, 0]

\* a - b - c for a >= b + c (c is the borrow)
BSubC[a \in Big, b \in Big, c \in Int] ==
  IF a = <<>> THEN <<>>
  ELSE LET y == IF b = <<>> THEN 0 ELSE Head(b)
           s == Head(a) - y - c
       IN <<IF s < 0 THEN s + Base ELSE s>>
            \o BSubC[Tail(a), IF b = <<>> THEN <<>> ELSE Tail(b),
                     IF s < 0 THEN 1 ELSE 0]

BSub(a, b) == BNorm[BSubC[a, b, 0]]

\* -1, 0, 1 as a < b, a = b, a > b on the limbs 1..k, for equal lengths
BCmpAt[a \in Big, b \in Big, k \in Int] ==
  IF k = 0 THEN 0
  ELSE IF a[k] < b[k] THEN -1
  ELSE IF a[k] > b[k] THEN 1
  ELSE BCmpAt[a, b, k - 1]

BCmp[a \in Big, b \in Big] ==
  IF Len(a) < Len(b) THEN -1
  ELSE IF Len(a) > Len(b) THEN 1
  ELSE BCmpAt[a, b, Len(a)]

\* a * m + c for a small natural m
BMulC[a \in Big, m \in Int, c \in Int] ==
  IF a = <<>> THEN BFrom[c]
  ELSE <<(Head(a) * m + c) % Base>>
         \o BMulC[Tail(a), m, (Head(a) * m + c) \div Base]

BMulS[a \in Big, m \in Int] == IF m = 0 THEN <<>> ELSE BMulC[a, m, 0]

\* a mod m for a small positive m (Horner from the top limb k)
BModAt[a \in Big, m \in Int, k \in Int, r \in Int] ==
  IF k = 0 THEN r ELSE BModAt[a, m, k - 1, (r * Base + a[k]) % m]

BModS[a \in Big, m \in Int] == BModAt[a, m, Len(a), 0]

\* a div m for a small positive m (long division from the top limb k)
BDivAt[a \in Big, m \in Int, k \in Int, r \in Int] ==
  IF k = 0 THEN <<>>
  ELSE BDivAt[a, m, k - 1, (r * Base + a[k]) % m]
         \o <<(r * Base + a[k]) \div m>>

BDivS[a \in Big, m \in Int] == BNorm[BDivAt[a, m, Len(a), 0]]

(***************************************************************************)
(* Signed multi-limb integers.                                             *)
(***************************************************************************)
SInt == [neg : BOOLEAN, mag : Big]

SMk[neg \in BOOLEAN, mag \in Big] == [neg |-> neg /\ mag # <<>>, mag |-> mag]

SZero == SMk[FALSE, <<>>]

SFrom[k \in Int] ==
  IF k < 0 THEN SMk[TRUE, BFrom[-k]] ELSE SMk[FALSE, BFrom[k]]

SNeg[x \in SInt] == SMk[~x.neg, x.mag]

SAbs(x) == x.mag

SAdd[x \in SInt, y \in SInt] ==
  IF x.neg = y.neg THEN SMk[x.neg, BAdd(x.mag, y.mag)]
  ELSE IF BCmp[x.mag, y.mag] >= 0 THEN SMk[x.neg, BSub(x.mag, y.mag)]
  ELSE SMk[y.neg, BSub(y.mag, x.mag)]

SSub(x, y) == SAdd[x, SNeg[y]]

\* x * k for a small integer k
SMulI[x \in SInt, k \in Int] ==
  IF k < 0 THEN SMk[~x.neg, BMulS[x.mag, -k]] ELSE SMk[x.neg, BMulS[x.mag, k]]

SDivS[x \in SInt, m \in Int] == SMk[x.neg, BDivS[x.mag, m]]

\* the sum of a sequence of signed integers
SSumSeq[s \in Seq(SInt)] ==
  IF s = <<>> THEN SZero ELSE SAdd[Head(s), SSumSeq[Tail(s)]]

\* the sum of a sequence of naturals
BSumSeq[s \in Seq(Big)] ==
  IF s = <<>> THEN <<>> ELSE BAdd(Head(s), BSumSeq[Tail(s)])

(***************************************************************************)
(* Inputs.  A damping factor is a rational <<numerator, denominator>>.     *)
(***************************************************************************)
Pages == {"A", "B", "C"}

\* iteration order of the corpus dictionary
Order == <<"A", "B", "C">>

KeySets == {{}, {"A"}, {"A", "B"}, {"A", "B", "C"}}

\* what crawl returns: targets are keys, no page links to itself
Corpora ==
  UNION {{g \in [S -> SUBSET S] : \A p \in S : p \notin g[p]} : S \in KeySets}

DAMPING == <<17, 20>>

Dampings == {<<0, 1>>, <<1, 2>>, DAMPING, <<1, 1>>, <<3, 2>>}

MaxSamples == 3

SampleCounts == (-1)..MaxSamples

\* the convergence threshold 1e-3 = TolNum / TolDen
TolNum == 1

TolDen == 1000

MaxLimbs == 30

ValidDamping(d) == 0 <= d[1] /\ d[1] <= d[2]

NoDict == [p \in {} |-> 0]

NoVec == [num |-> NoDict, den |-> <<>>]

\* the dictionary with the items of f, built once
Dict(f) == f @@ NoDict

Keys(c) == DOMAIN c

KeyOrder(c) == SelectSeq(Order, LAMBDA p : p \in Keys(c))

RECURSIVE Fact(_)
Fact(k) == IF k <= 1 THEN 1 ELSE k * Fact(k - 1)

\* every out-degree of a corpus of N pages divides LinkUnit
LinkUnit(c) == Fact(Cardinality(Keys(c)) - 1)

\* the common denominator of the values of transition_model
TDen(c, d) ==
  IF Keys(c) = {} THEN 1 ELSE d[2] * Cardinality(Keys(c)) * LinkUnit(c)

RECURSIVE SumInt(_, _)
SumInt(f, S) ==
  IF S = {} THEN 0
  ELSE LET p == CHOOSE q \in S : TRUE IN f[p] + SumInt(f, S \ {p})

(***************************************************************************)
(* transition_model: numerators over TDen(corpus, damping_factor).         *)
(***************************************************************************)
\* transition_model without line 72: a linked page gets no share
transition_model_no_share(c, pg, d) ==
  LET links == c[pg]
      K == LinkUnit(c)
  IN IF links # {}
     THEN Dict([p \in Keys(c) |-> (d[2] - d[1]) * K])
     ELSE Dict([p \in Keys(c) |-> d[2] * K])

\* transition_model with line 72 dividing by len(corpus)
transition_model_share_by_N(c, pg, d) ==
  LET links == c[pg]
      K == LinkUnit(c)
  IN IF links # {}
     THEN Dict([p \in Keys(c) |->
                  (d[2] - d[1]) * K + (IF p \in links THEN d[1] * K ELSE 0)])
     ELSE Dict([p \in Keys(c) |-> d[2] * K])

\* transition_model with line 75 giving only the teleport share
transition_model_dangling_leak(c, pg, d) ==
  LET N == Cardinality(Keys(c))
      links == c[pg]
      K == LinkUnit(c)
  IN IF links # {}
     THEN Dict([p \in Keys(c) |->
                  (d[2] - d[1]) * K
                  + (IF p \in links
                     THEN d[1] * N * (K \div Cardinality(links)) ELSE 0)])
     ELSE Dict([p \in Keys(c) |-> (d[2] - d[1]) * K])

transition_model(c, pg, d) ==
  LET N == Cardinality(Keys(c))
      links == c[pg]
      K == LinkUnit(c)
  IN IF links # {}
     THEN Dict([p \in Keys(c) |->
                  (d[2] - d[1]) * K
                  + (IF p \in links
                     THEN d[1] * N * (K \div Cardinality(links)) ELSE 0)])
     ELSE Dict([p \in Keys(c) |-> d[2] * K])

(***************************************************************************)
(* random.choices(population, weights)[0]: the indices that                *)
(* bisect(cum_weights, random() * total, 0, hi) can return for a point of  *)
(* the interval [a, b).                                                    *)
(***************************************************************************)
RECURSIVE CumWeights(_, _, _)
CumWeights(w, ks, acc) ==
  IF ks = <<>> THEN <<>>
  ELSE <<acc + w[Head(ks)]>> \o CumWeights(w, Tail(ks), acc + w[Head(ks)])

Min2(x, y) == IF x < y THEN x ELSE y

Max2(x, y) == IF x > y THEN x ELSE y

RECURSIVE Bisect(_, _, _, _, _)
Bisect(cum, lo, hi, a, b) ==
  IF lo >= hi THEN {lo}
  ELSE LET mid == (lo + hi) \div 2
       IN (IF a < Min2(b, cum[mid + 1])
           THEN Bisect(cum, lo, mid, a, Min2(b, cum[mid + 1])) ELSE {})
          \cup
          (IF Max2(a, cum[mid + 1]) < b
           THEN Bisect(cum, mid + 1, hi, Max2(a, cum[mid + 1]), b) ELSE {})

\* the pages random.choices can draw; empty when it raises ValueError
Choices(c, w) ==
  LET ks == KeyOrder(c)
      cum == CumWeights(w, ks, 0)
      total == cum[Len(cum)]
  IN IF total <= 0 THEN {}
     ELSE {ks[k + 1] : k \in Bisect(cum, 0, Len(ks) - 1, 0, total)}

(***************************************************************************)
(* Rank vectors: [num |-> page -> signed numerator, den |-> denominator],  *)
(* kept in lowest terms so that equal vectors are equal values.            *)
(***************************************************************************)
\* the values of a dictionary in the order of its keys
Values(f) == [k \in 1..Len(KeyOrder(f)) |-> f[KeyOrder(f)[k]]]

SSum(f) == SSumSeq[Values(f)]

BSum(f) == BSumSeq[Values(f)]

Factors(c, d) == {f \in 2..TDen(c, d) : TDen(c, d) % f = 0}

Divisible[nums \in Seq(SInt), den \in Big, f \in Int] ==
  /\ BModS[den, f] = 0
  /\ \A k \in 1..Len(nums) : BModS[nums[k].mag, f] = 0

\* numerators and denominator divided by their common factors in F
ReduceSeq[nums \in Seq(SInt), den \in Big, F \in SUBSET Int] ==
  IF \E f \in F : Divisible[nums, den, f]
  THEN ReduceSeq[[k \in 1..Len(nums) |->
                    SDivS[nums[k], CHOOSE g \in F : Divisible[nums, den, g]]],
                 BDivS[den, CHOOSE g \in F : Divisible[nums, den, g]], F]
  ELSE <<nums, den>>

\* the dictionary with the keys ks and the values r[1], over r[2]
ToVec[ks \in Seq(STRING), r \in Seq(SInt) \X Big] ==
  [num |-> Dict([p \in {ks[k] : k \in 1..Len(ks)} |->
                   r[1][CHOOSE k \in 1..Len(ks) : ks[k] = p]]),
   den |-> r[2]]

Reduce(v, F) == ToVec[KeyOrder(v.num), ReduceSeq[Values(v.num), v.den, F]]

\* line 119: pagerank = {page: 1/N for page in corpus}
InitialRank(c) ==
  [num |-> Dict([p \in Keys(c) |-> SFrom[1]]),
   den |-> BFrom[IF Keys(c) = {} THEN 1 ELSE Cardinality(Keys(c))]]

\* NewProb with line 130 reading model_p[i] for model_i[p]
NewProbTransposed(c, pr, d) ==
  [num |-> Dict([p \in Keys(c) |->
             SSum([j \in Keys(c) |->
                     SMulI[pr.num[j], transition_model(c, p, d)[j]]])]),
   den |-> BMulS[pr.den, TDen(c, d)]]

\* lines 121-132: new_prob[p] = sum over i of pagerank[i] * model_i[p]
NewProb(c, pr, d) ==
  [num |-> Dict([p \in Keys(c) |->
             SSum([j \in Keys(c) |->
                     SMulI[pr.num[j], transition_model(c, j, d)[p]]])]),
   den |-> BMulS[pr.den, TDen(c, d)]]

\* line 134: the numerator of diff over the denominator of new
DiffNum(c, new, pr, d) ==
  BSum([p \in Keys(c) |->
          SAbs(SSub(new.num[p], SMulI[pr.num[p], TDen(c, d)]))])

\* Converged with the comparison of line 135 the wrong way round
ConvergedInverted(c, new, pr, d) ==
  BCmp[BMulS[DiffNum(c, new, pr, d), TolDen], BMulS[new.den, TolNum]] > 0

\* line 135: diff < 1e-3
Converged(c, new, pr, d) ==
  BCmp[BMulS[DiffNum(c, new, pr, d), TolDen], BMulS[new.den, TolNum]] < 0

\* lines 140-141: every value divided by the sum of the values
Normalize(pr) ==
  [num |-> Dict([p \in DOMAIN pr.num |->
                   IF SSum(pr.num).neg THEN SNeg[pr.num[p]] ELSE pr.num[p]]),
   den |-> SSum(pr.num).mag]

(***************************************************************************)
(* State: one call of transition_model, sample_pagerank or                 *)
(* iterate_pagerank with its arguments, its locals and its outcome.        *)
(***************************************************************************)
VARIABLES call, corpus, damping_factor, n, arg, pc, err,
          prob_values, count_page, page, i, pageRank,
          pagerank, new_prob, ranks

vars == <<call, corpus, damping_factor, n, arg, pc, err,
          prob_values, count_page, page, i, pageRank,
          pagerank, new_prob, ranks>>

inputs == <<call, corpus, damping_factor, n, arg>>

sampleVars == <<count_page, page, i, pageRank>>

iterVars == <<pagerank, new_prob, ranks>>

Init ==
  /\ call \in {"transition", "sample", "iterate"}
  /\ corpus \in Corpora
  /\ damping_factor \in Dampings
  /\ n \in (IF call = "sample" THEN SampleCounts ELSE {0})
  /\ arg \in (IF call = "transition" THEN Pages ELSE {"none"})
  /\ pc = "call"
  /\ err = "none"
  /\ prob_values = NoDict
  /\ count_page = NoDict
  /\ page = "none"
  /\ i = 0
  /\ pageRank = NoDict
  /\ pagerank = NoVec
  /\ new_prob = NoVec
  /\ ranks = NoVec

\* Visit with line 96 assigning 1 instead of adding 1
VisitAssign(cp, pg) == [cp EXCEPT ![pg] = 1]

\* line 96: count_page[page] += 1
Visit(cp, pg) == [cp EXCEPT ![pg] = @ + 1]

\* lines 51-77; corpus[page] raises KeyError for a page that is no key
TransitionCall ==
  /\ call = "transition" /\ pc = "call"
  /\ IF arg \in Keys(corpus)
     THEN /\ prob_values' = transition_model(corpus, arg, damping_factor)
          /\ pc' = "done"
          /\ err' = err
     ELSE /\ pc' = "error"
          /\ err' = "KeyError"
          /\ prob_values' = prob_values
  /\ UNCHANGED <<inputs, sampleVars, iterVars>>

\* lines 90-92; random.choice of an empty list raises IndexError
SampleStart ==
  /\ call = "sample" /\ pc = "call"
  /\ count_page' = [p \in Keys(corpus) |-> 0]
  /\ IF Keys(corpus) = {}
     THEN /\ pc' = "error"
          /\ err' = "IndexError"
          /\ page' = page
     ELSE /\ page' \in Keys(corpus)
          /\ pc' = "loop"
          /\ err' = err
  /\ UNCHANGED <<inputs, prob_values, i, pageRank, iterVars>>

\* lines 94-102: one pass of the loop over range(n)
SampleStep ==
  /\ call = "sample" /\ pc = "loop"
  /\ i < n
  /\ count_page' = Visit(count_page, page)
  /\ LET model_to_sample == transition_model(corpus, page, damping_factor)
     IN page' \in Choices(corpus, model_to_sample)
  /\ i' = i + 1
  /\ UNCHANGED <<inputs, pc, err, prob_values, pageRank, iterVars>>

\* lines 104-106; a value of pageRank is the pair <<count, n>> for count/n
SampleReturn ==
  /\ call = "sample" /\ pc = "loop"
  /\ ~(i < n)
  /\ IF n = 0
     THEN /\ pc' = "error"
          /\ err' = "ZeroDivisionError"
          /\ pageRank' = pageRank
     ELSE /\ pageRank' = [p \in Keys(corpus) |-> <<count_page[p], n>>]
          /\ pc' = "done"
          /\ err' = err
  /\ UNCHANGED <<inputs, prob_values, count_page, page, i, iterVars>>

\* lines 118-119; the comprehension over an empty corpus never divides
IterStart ==
  /\ call = "iterate" /\ pc = "call"
  /\ pagerank' = InitialRank(corpus)
  /\ pc' = "loop"
  /\ UNCHANGED <<inputs, err, prob_values, sampleVars, new_prob, ranks>>

\* lines 120-138: one pass of the while loop
IterRound ==
  /\ call = "iterate" /\ pc = "loop"
  /\ Len(pagerank.den) <= MaxLimbs
  /\ \E new \in {NewProb(corpus, pagerank, damping_factor)} :
       /\ new_prob' = Reduce(new, Factors(corpus, damping_factor))
       /\ IF Converged(corpus, new, pagerank, damping_factor)
          THEN /\ pc' = "exit"
               /\ pagerank' = pagerank
          ELSE /\ pagerank' = new_prob'
               /\ pc' = pc
  /\ UNCHANGED <<inputs, err, prob_values, sampleVars, ranks>>

\* lines 140-142
IterReturn ==
  /\ call = "iterate" /\ pc = "exit"
  /\ IF Keys(corpus) # {} /\ Normalize(pagerank).den = <<>>
     THEN /\ pc' = "error"
          /\ err' = "ZeroDivisionError"
          /\ ranks' = ranks
     ELSE /\ ranks' = Normalize(pagerank)
          /\ pc' = "done"
          /\ err' = err
  /\ UNCHANGED <<inputs, prob_values, sampleVars, pagerank, new_prob>>

Next ==
  \/ TransitionCall
  \/ SampleStart
  \/ SampleStep
  \/ SampleReturn
  \/ IterStart
  \/ IterRound
  \/ IterReturn

Spec == Init /\ [][Next]_vars

\* the interpreter keeps running a call that can take a step
FairSpec == Init /\ [][Next]_vars /\ WF_vars(Next)

(***************************************************************************)
(* Properties.                                                             *)
(***************************************************************************)
NPages == Cardinality(Keys(corpus))

ScenarioB == [p \in {"A", "B"} |-> IF p = "A" THEN {"B"} ELSE {}]

\* a value num/den of a rank vector is nearer than 1e-3 to m/10000
Near(v, p, m) ==
  BCmp[SAbs(SSub(SMulI[v.num[p], 10000], SMk[FALSE, BMulS[v.den, m]])),
       BMulS[v.den, 10]] < 0

\* C1: for a valid damping the values of transition_model sum to 1 and
\* its keys are exactly the pages of the graph, dangling page or not.
C1_TransitionSumsToOne ==
  (call = "transition" /\ pc = "done" /\ ValidDamping(damping_factor))
    => /\ DOMAIN prob_values = Keys(corpus)
       /\ SumInt(prob_values, Keys(corpus))
            = TDen(corpus, damping_factor)

C1_Witness ==
  /\ call = "transition" /\ pc = "done"
  /\ damping_factor = DAMPING
  /\ NPages = 3
  /\ Cardinality(corpus[arg]) = 1

\* C2: transition_model equals the random-surfer reference: with k
\* outbound links, (1 - d)/N + d/k for a linked page and (1 - d)/N for any
\* other page; exactly 1/N for every page when the page is dangling.
C2_TransitionIsRandomSurfer ==
  (call = "transition" /\ pc = "done" /\ ValidDamping(damping_factor))
    => LET k == Cardinality(corpus[arg])
           dn == damping_factor[1]
           dd == damping_factor[2]
           T == TDen(corpus, damping_factor)
       IN \A p \in Keys(corpus) :
            IF k = 0
            THEN prob_values[p] * NPages = T
            ELSE IF p \in corpus[arg]
            THEN prob_values[p] * (dd * NPages * k)
                   = T * ((dd - dn) * k + dn * NPages)
            ELSE prob_values[p] * (dd * NPages) = T * (dd - dn)

C2_Witness ==
  /\ call = "transition" /\ pc = "done"
  /\ damping_factor = DAMPING
  /\ NPages = 3
  /\ Cardinality(corpus[arg]) = 2

\* C3: for n >= 1 on a non-empty graph with a valid damping, the counters
\* sum to j after j steps, the loop ends after exactly n steps, no error
\* is raised, and the result has every page as a key with values count/n
\* that sum to 1.
C3_SampleCounts ==
  (call = "sample" /\ n >= 1 /\ NPages >= 1 /\ ValidDamping(damping_factor))
    => /\ pc # "error"
       /\ pc = "loop" => /\ i <= n
                         /\ SumInt(count_page, Keys(corpus)) = i
       /\ pc = "done"
            => /\ i = n
               /\ SumInt(count_page, Keys(corpus)) = n
               /\ DOMAIN pageRank = Keys(corpus)
               /\ \A p \in Keys(corpus) : pageRank[p] = <<count_page[p], n>>
               /\ SumInt([p \in Keys(corpus) |-> pageRank[p][1]],
                         Keys(corpus)) = n

C3_Witness ==
  /\ call = "sample" /\ pc = "done"
  /\ n = MaxSamples
  /\ NPages = 3
  /\ damping_factor = DAMPING
  /\ \E p \in Keys(corpus) : count_page[p] = 2

IterateCase == call = "iterate" /\ NPages >= 1 /\ ValidDamping(damping_factor)

Returned ==
  /\ pc = "done"
  /\ DOMAIN ranks.num = Keys(corpus)
  /\ SSum(ranks.num) = SMk[FALSE, ranks.den]

\* C4 (as stated): for every damping in [0,1], 1 included, iterate_pagerank
\* eventually leaves its loop and returns a result that sums to 1.
C4_IterateTerminates == IterateCase ~> Returned

\* C4 (amended): for every damping in [0,1), iterate_pagerank eventually
\* leaves its loop and returns a result, with every page as a key, whose
\* values sum to 1.
C4_IterateTerminatesBelowOne ==
  (IterateCase /\ damping_factor[1] < damping_factor[2]) ~> Returned

C4_Witness ==
  /\ IterateCase /\ pc = "done"
  /\ damping_factor = <<1, 2>>
  /\ NPages = 3
  /\ ranks # InitialRank(corpus)

\* C5: on {A: {B}, B: {}} with damping 0.85 the returned rank of A is
\* within 1e-3 of 0.3509 and that of B within 1e-3 of 0.6491.
C5_ScenarioB ==
  (call = "iterate" /\ corpus = ScenarioB /\ damping_factor = DAMPING
     /\ pc = "done")
    => Near(ranks, "A", 3509) /\ Near(ranks, "B", 6491)

C5_Witness ==
  /\ call = "iterate" /\ corpus = ScenarioB /\ damping_factor = DAMPING
  /\ pc = "done"
  /\ ranks # InitialRank(corpus)

\* C6: with a damping outside [0,1] no call returns a result, no visit
\* counter is incremented and no rank vector is computed.
C6_DampingRejected ==
  ~ValidDamping(damping_factor)
    => /\ pc # "done"
       /\ \A p \in DOMAIN count_page : count_page[p] = 0
       /\ pagerank = NoVec
       /\ new_prob = NoVec

\* C7: on an empty graph sample_pagerank and iterate_pagerank return no
\* result and end in no arithmetic or incidental fault.
C7_EmptyCorpusGuarded ==
  (call \in {"sample", "iterate"} /\ NPages = 0)
    => /\ pc # "done"
       /\ err \notin {"IndexError", "ZeroDivisionError", "KeyError"}

\* C8: sample_pagerank with n < 1 on a non-empty graph draws no start
\* page, returns no result and does not fail with a division by zero.
C8_SampleCountChecked ==
  (call = "sample" /\ n < 1 /\ NPages >= 1)
    => /\ page = "none"
       /\ pc # "done"
       /\ err # "ZeroDivisionError"

\* C9: the vector that is normalized and returned is the newRank computed
\* in the final round.
C9_ReturnsFinalNewRank ==
  (IterateCase /\ pc = "done") => ranks = new_prob

\* C10: at the start of every round and at loop exit the rank vector has
\* exactly the pages as keys, no negative value and sum 1, and the final
\* normalization changes no value.
C10_RankIsDistribution ==
  (IterateCase /\ pc \in {"loop", "exit", "done"})
    => /\ DOMAIN pagerank.num = Keys(corpus)
       /\ \A p \in Keys(corpus) : ~pagerank.num[p].neg
       /\ SSum(pagerank.num) = SMk[FALSE, pagerank.den]
       /\ pc = "done" => ranks = pagerank

C10_Witness ==
  /\ IterateCase /\ pc = "done"
  /\ damping_factor = DAMPING
  /\ NPages = 3
  /\ pagerank # InitialRank(corpus)
  /\ \E p \in Keys(corpus) : corpus[p] = {}
====
